---- MODULE Spec2Model ----
(***************************************************************************)
(* Wave scheduler of .opencode/skills/rlm/parallel-processor.py:           *)
(* ParallelWaveProcessor.process_all_chunks, process_wave, process_chunk,  *)
(* _has_confident_answer and _extract_confidence.                          *)
(*                                                                         *)
(* The main thread runs process_all_chunks; every chunk of a wave is a     *)
(* task of the wave's ThreadPoolExecutor.  Confidences are scaled by 100   *)
(* (0.8 is 80).  A chunk path is identified with its position in           *)
(* all_chunk_paths; the paths have pairwise distinct base names, so        *)
(* extract_chunk_id is injective on them.  The answer operation            *)
(* (subagent_callback) fails by raising an instance of Exception.          *)
(***************************************************************************)
EXTENDS Integers, Sequences, FiniteSets, TLC

\* Bounds of the model.
MaxChunks == 3
MaxConcurrent == 2
MaxMinHigh == 2

\* min_confidence_for_completion, default 0.8 (scaled by 100).
MinConfidence == 80

Chunks == 1..MaxChunks

Min(a, b) == IF a < b THEN a ELSE b

(***************************************************************************)
(* Payloads returned by the answer operation.  A field value is absent, a  *)
(* number, or a non-numeric value.                                         *)
(***************************************************************************)
Absent == [t |-> "absent", v |-> 0]
Num(x) == [t |-> "num", v |-> x]
NonNum == [t |-> "str", v |-> 0]

Dict(conf, cert, score, prob) ==
    [kind |-> "dict", confidence |-> conf, certainty |-> cert,
     score |-> score, probability |-> prob]

\* A payload that is no dict (a string, a list, None).
NonDictPayload ==
    [kind |-> "other", confidence |-> Absent, certainty |-> Absent,
     score |-> Absent, probability |-> Absent]

\* A result dict without the "result" key (process_chunk's except branch).
NoPayload ==
    [kind |-> "missing", confidence |-> Absent, certainty |-> Absent,
     score |-> Absent, probability |-> Absent]

Payloads ==
    { Dict(Num(90), Absent, Absent, Absent),
      Dict(Num(80), Absent, Absent, Absent),
      Dict(Num(50), Absent, Absent, Absent),
      Dict(Absent, Num(90), Absent, Absent),
      Dict(NonNum, Absent, Num(90), Absent),
      NonDictPayload }

(***************************************************************************)
(* process_chunk: the dict it returns.                                     *)
(***************************************************************************)
SuccessResult(c, p) ==
    [chunk_id |-> c, success |-> TRUE, result |-> p, error |-> "none"]

\* A mutant: the except branch reports success.
FailureResultAsSuccess(c, e) ==
    [chunk_id |-> c, success |-> TRUE, result |-> NoPayload, error |-> e]

FailureResult(c, e) ==
    [chunk_id |-> c, success |-> FALSE, result |-> NoPayload, error |-> e]

NoFuture == [chunk_id |-> 0, success |-> FALSE, result |-> NoPayload, error |-> "unset"]

(***************************************************************************)
(* _extract_confidence                                                     *)
(***************************************************************************)
\* result.get("result", {}).get(...) on a payload that is no dict.
ExtractRaises(r) == r.result.kind = "other"

FirstNumeric(p) ==
    IF p.confidence.t = "num" THEN p.confidence.v
    ELSE IF p.certainty.t = "num" THEN p.certainty.v
    ELSE IF p.score.t = "num" THEN p.score.v
    ELSE IF p.probability.t = "num" THEN p.probability.v
    ELSE 0

ExtractConfidence(r) ==
    LET p == r.result
        confidence == IF p.kind = "dict" /\ p.confidence.t # "absent"
                      THEN p.confidence ELSE Num(0)
    IN  IF confidence.t = "num" THEN confidence.v
        ELSE IF p.kind = "dict" THEN FirstNumeric(p)
        ELSE 0

(***************************************************************************)
(* _has_confident_answer                                                   *)
(***************************************************************************)
HighConfidence(rs) ==
    {i \in DOMAIN rs : rs[i].success /\ ExtractConfidence(rs[i]) > MinConfidence}

HasConfidentRaises(rs) ==
    \E i \in DOMAIN rs : rs[i].success /\ ExtractRaises(rs[i])

\* A mutant: more than k confident results are required.
HasConfidentAnswerStrict(rs, k) ==
    /\ rs # <<>>
    /\ Cardinality(HighConfidence(rs)) > k

HasConfidentAnswer(rs, k) ==
    /\ rs # <<>>
    /\ Cardinality(HighConfidence(rs)) >= k

(***************************************************************************)
(* process_all_chunks: the split into waves and the summary.               *)
(***************************************************************************)
\* A mutant: every wave after the first starts one path early.
WavesOverlapping(paths, m) ==
    IF m <= 0 THEN <<>>
    ELSE [j \in 1..((Len(paths) + m - 1) \div m) |->
              SubSeq(paths, IF j = 1 THEN 1 ELSE (j - 1) * m,
                     Min(j * m, Len(paths)))]

\* A mutant: the slice of a wave ends one path early.
WavesDropLast(paths, m) ==
    IF m <= 0 THEN <<>>
    ELSE [j \in 1..((Len(paths) + m - 1) \div m) |->
              SubSeq(paths, (j - 1) * m + 1, Min(j * m, Len(paths)) - 1)]

\* A mutant: one wave too many when the length is a multiple of m.
WavesExtra(paths, m) ==
    IF m <= 0 THEN <<>>
    ELSE [j \in 1..(Len(paths) \div m + 1) |->
              SubSeq(paths, (j - 1) * m + 1, Min(j * m, Len(paths)))]

Waves(paths, m) ==
    IF m <= 0 THEN <<>>
    ELSE [j \in 1..((Len(paths) + m - 1) \div m) |->
              SubSeq(paths, (j - 1) * m + 1, Min(j * m, Len(paths)))]

\* chunk_paths[: self.max_concurrent] of process_wave, for max_concurrent > 0.
WaveChunkPaths(chunk_paths, m) == SubSeq(chunk_paths, 1, Min(m, Len(chunk_paths)))

NoSummary ==
    [total_waves |-> -1, processed_waves |-> -1, total_chunks |-> -1,
     processed_chunks |-> -1, successful_chunks |-> -1, results |-> <<>>,
     early_termination |-> FALSE]

\* A mutant: early_termination is set whenever the loop was left by break.
SummaryFlagOnBreak(ws, pw, paths, rs, broke) ==
    [total_waves |-> Len(ws), processed_waves |-> pw, total_chunks |-> Len(paths),
     processed_chunks |-> Len(rs),
     successful_chunks |-> Cardinality({i \in DOMAIN rs : rs[i].success}),
     results |-> rs, early_termination |-> broke]

\* A mutant: early_termination compares with <=.
SummaryOffByOne(ws, pw, paths, rs, broke) ==
    [total_waves |-> Len(ws), processed_waves |-> pw, total_chunks |-> Len(paths),
     processed_chunks |-> Len(rs),
     successful_chunks |-> Cardinality({i \in DOMAIN rs : rs[i].success}),
     results |-> rs, early_termination |-> (pw <= Len(ws))]

\* A mutant: successful_chunks counts every result.
SummaryCountsAll(ws, pw, paths, rs, broke) ==
    [total_waves |-> Len(ws), processed_waves |-> pw, total_chunks |-> Len(paths),
     processed_chunks |-> Len(rs), successful_chunks |-> Len(rs),
     results |-> rs, early_termination |-> (pw < Len(ws))]

Summary(ws, pw, paths, rs, broke) ==
    [total_waves |-> Len(ws), processed_waves |-> pw, total_chunks |-> Len(paths),
     processed_chunks |-> Len(rs),
     successful_chunks |-> Cardinality({i \in DOMAIN rs : rs[i].success}),
     results |-> rs, early_termination |-> (pw < Len(ws))]

VARIABLES
    max_concurrent,               \* self.max_concurrent
    min_high_confidence_chunks,   \* self.min_high_confidence_chunks
    all_chunk_paths,              \* argument of process_all_chunks
    query,                        \* argument of process_all_chunks
    pc,                           \* position of the main thread
    waves,                        \* process_all_chunks: waves
    wave_idx,                     \* process_all_chunks: wave_idx
    wave_chunk_paths,             \* process_wave: wave_chunk_paths
    submitted,                    \* process_wave: number of executor.submit calls made
    task,                         \* state of each chunk's work item
    future,                       \* result held by each chunk's future
    calls,                        \* invocations of subagent_callback per chunk
    prefinished,                  \* as_completed: futures finished when it was called
    pending,                      \* as_completed: futures not yet finished
    finished_futures,             \* as_completed: waiter.finished_futures
    results,                      \* process_wave: results
    all_results,                  \* process_all_chunks: all_results
    processed_waves,              \* process_all_chunks: processed_waves
    stopped,                      \* the break of the wave loop was taken
    summary                       \* the dict returned by process_all_chunks

\* State of an AdaptiveChunker (adaptive-chunker.py) and its last call of
\* create_adaptive_chunks.
VARIABLES
    chunk_size,                   \* self.chunk_size
    min_chunk_size,               \* self.min_chunk_size
    max_chunk_size,               \* self.max_chunk_size
    optimal_time,                 \* self.optimal_time
    processing_times,             \* self.processing_times
    content,                      \* create_adaptive_chunks: content
    max_chunks,                   \* create_adaptive_chunks: max_chunks (0 is None)
    content_type,                 \* the value detect_content_type returned
    stats,                        \* the dictionary get_stats returned
    chunks                        \* the list create_adaptive_chunks returned

\* A call of _extract_confidence on its own: its argument and what it did.
VARIABLES
    extract_arg,                  \* _extract_confidence: result
    extract_ret                   \* the value returned, or the exception raised

\* A run of process_all_chunks_async on the same processor, chunk list and
\* query, and the answer operation both runs are given.
VARIABLES
    answer,                       \* what reading and answering each chunk gives
    a_pc,                         \* position of process_all_chunks_async
    a_waves,                      \* process_all_chunks_async: waves
    a_wave_idx,                   \* process_all_chunks_async: wave_idx
    a_task,                       \* state of each chunk's process_chunk_async task
    a_future,                     \* what each chunk's task returned
    a_calls,                      \* awaits of subagent_callback per chunk
    a_all_results,                \* process_all_chunks_async: all_results
    a_processed_waves,            \* process_all_chunks_async: processed_waves
    a_stopped,                    \* the loop was left by break
    a_summary                     \* the dictionary returned

asyncrun == <<answer, a_pc, a_waves, a_wave_idx, a_task, a_future, a_calls,
              a_all_results, a_processed_waves, a_stopped, a_summary>>

\* The module-level singletons and the threads calling their getters.
VARIABLES
    p_instance,                   \* parallel-processor.py: _processor_instance
    p_lock,                       \* parallel-processor.py: _instance_lock (0: free)
    p_pc,                         \* position of each thread in get_parallel_processor
    p_args,                       \* max_concurrent passed by each thread
    p_ret,                        \* the instance returned to each thread
    p_constructed,                \* ParallelWaveProcessor constructor runs
    c_instance,                   \* adaptive-chunker.py: _chunker_instance
    c_pc,                         \* position of each thread in get_adaptive_chunker
    c_args,                       \* initial_chunk_size passed by each thread
    c_ret,                        \* the instance returned to each thread
    c_constructed                 \* AdaptiveChunker constructor runs

singletons == <<p_instance, p_lock, p_pc, p_args, p_ret, p_constructed,
                c_instance, c_pc, c_args, c_ret, c_constructed>>

extractor == <<extract_arg, extract_ret>>

chunker == <<chunk_size, min_chunk_size, max_chunk_size, optimal_time,
             processing_times, content, max_chunks, content_type, stats, chunks>>

scheduler == <<max_concurrent, min_high_confidence_chunks, all_chunk_paths, query, pc,
               waves, wave_idx, wave_chunk_paths, submitted, task, future, calls,
               prefinished, pending, finished_futures, results, all_results,
               processed_waves, stopped, summary>>

\* What a run of the wave scheduler leaves alone.
rest == <<chunker, extractor, asyncrun, singletons>>

vars == <<scheduler, chunker, extractor, asyncrun, singletons>>

config == <<max_concurrent, min_high_confidence_chunks, all_chunk_paths, query>>
mainv == <<pc, waves, wave_idx, wave_chunk_paths, submitted, prefinished, results,
           all_results, processed_waves, stopped, summary>>

Range(s) == {s[i] : i \in DOMAIN s}

\* No AdaptiveChunker takes part in a run of the wave scheduler.
ChunkerUnused ==
    /\ chunk_size = 0
    /\ min_chunk_size = 0
    /\ max_chunk_size = 0
    /\ optimal_time = 0
    /\ processing_times = <<>>
    /\ content = <<>>
    /\ max_chunks = 0
    /\ content_type = "none"
    /\ stats = <<>>
    /\ chunks = <<>>

NotCalled == [state |-> "not called", value |-> 0]

\* _extract_confidence is not called on its own.
ExtractorUnused ==
    /\ extract_arg = NoFuture
    /\ extract_ret = NotCalled

MaxThreads == 3
Threads == 1..MaxThreads

\* None
None == [id |-> 0, arg |-> 0]

\* The module is loaded and no thread has called get_parallel_processor.
ProcessorGetterLoaded(pcs) ==
    /\ p_instance = None
    /\ p_lock = 0
    /\ p_pc = [t \in Threads |-> pcs]
    /\ p_args = [t \in Threads |-> 0]
    /\ p_ret = [t \in Threads |-> None]
    /\ p_constructed = 0

\* The module is loaded and no thread has called get_adaptive_chunker.
ChunkerGetterLoaded(pcs) ==
    /\ c_instance = None
    /\ c_pc = [t \in Threads |-> pcs]
    /\ c_args = [t \in Threads |-> 0]
    /\ c_ret = [t \in Threads |-> None]
    /\ c_constructed = 0

\* No thread calls a getter.
SingletonsUnused == ProcessorGetterLoaded("unused") /\ ChunkerGetterLoaded("unused")

\* The answer operation is not fixed beforehand.
AnyAnswer == [kind |-> "any", payload |-> NoPayload]

\* process_all_chunks_async is entered with the answer operation f.
ProcessAllChunksAsyncEntered(f, at) ==
    /\ answer = f
    /\ a_pc = at
    /\ a_waves = <<>>
    /\ a_wave_idx = 0
    /\ a_task = [c \in Chunks |-> "idle"]
    /\ a_future = [c \in Chunks |-> NoFuture]
    /\ a_calls = [c \in Chunks |-> 0]
    /\ a_all_results = <<>>
    /\ a_processed_waves = 0
    /\ a_stopped = FALSE
    /\ a_summary = NoSummary

\* process_all_chunks_async is not called.
AsyncUnused == ProcessAllChunksAsyncEntered([c \in Chunks |-> AnyAnswer], "unused")

\* process_all_chunks is entered on a processor with max_concurrent in ms and
\* min_high_confidence_chunks in ks, with a list of n in ns chunks and a query
\* in qs.
ProcessAllChunksEntered(ms, ks, ns, qs) ==
    /\ max_concurrent \in ms
    /\ min_high_confidence_chunks \in ks
    /\ all_chunk_paths \in {[i \in 1..n |-> i] : n \in ns}
    /\ query \in qs
    /\ pc = "start"
    /\ waves = <<>>
    /\ wave_idx = 0
    /\ wave_chunk_paths = <<>>
    /\ submitted = 0
    /\ task = [c \in Chunks |-> "idle"]
    /\ future = [c \in Chunks |-> NoFuture]
    /\ calls = [c \in Chunks |-> 0]
    /\ prefinished = {}
    /\ pending = {}
    /\ finished_futures = <<>>
    /\ results = <<>>
    /\ all_results = <<>>
    /\ processed_waves = 0
    /\ stopped = FALSE
    /\ summary = NoSummary

Init ==
    /\ ProcessAllChunksEntered(-1..MaxConcurrent, 1..MaxMinHigh, 0..MaxChunks, {"q"})
    /\ AsyncUnused
    /\ SingletonsUnused
    /\ ChunkerUnused
    /\ ExtractorUnused

\* As Init, the query being empty or not.
ConfigInit ==
    /\ ProcessAllChunksEntered(-1..MaxConcurrent, 1..MaxMinHigh, 0..MaxChunks,
                               {"", "q"})
    /\ AsyncUnused
    /\ SingletonsUnused
    /\ ChunkerUnused
    /\ ExtractorUnused

(***************************************************************************)
(* Main thread: process_all_chunks                                         *)
(***************************************************************************)
\* range(0, len(all_chunk_paths), 0) raises ValueError.
SplitRaises ==
    /\ pc = "start"
    /\ max_concurrent = 0
    /\ pc' = "raised"
    /\ UNCHANGED <<rest, config, waves, wave_idx, wave_chunk_paths, submitted, task, future,
                   calls, prefinished, pending, finished_futures, results,
                   all_results, processed_waves, stopped, summary>>

SplitIntoWaves ==
    /\ pc = "start"
    /\ max_concurrent # 0
    /\ waves' = Waves(all_chunk_paths, max_concurrent)
    /\ pc' = "loop"
    /\ UNCHANGED <<rest, config, wave_idx, wave_chunk_paths, submitted, task, future,
                   calls, prefinished, pending, finished_futures, results,
                   all_results, processed_waves, stopped, summary>>

\* Next iteration of the wave loop: process_wave is entered.
BeginWave ==
    /\ pc = "loop"
    /\ ~stopped
    /\ wave_idx < Len(waves)
    /\ wave_idx' = wave_idx + 1
    /\ wave_chunk_paths' = WaveChunkPaths(waves[wave_idx + 1], max_concurrent)
    /\ submitted' = 0
    /\ results' = <<>>
    /\ prefinished' = {}
    /\ pending' = {}
    /\ finished_futures' = <<>>
    /\ pc' = "submit"
    /\ UNCHANGED <<rest, config, waves, task, future, calls, all_results, processed_waves,
                   stopped, summary>>

\* executor.submit(self.process_chunk, path, ...) for the next path of the wave.
Submit ==
    /\ pc = "submit"
    /\ submitted < Len(wave_chunk_paths)
    /\ submitted' = submitted + 1
    /\ task' = [task EXCEPT ![wave_chunk_paths[submitted + 1]] = "queued"]
    /\ UNCHANGED <<rest, config, pc, waves, wave_idx, wave_chunk_paths, future, calls,
                   prefinished, pending, finished_futures, results, all_results,
                   processed_waves, stopped, summary>>

\* as_completed(future_to_chunk): the futures already finished are yielded
\* first; a waiter collects the others in the order they finish.
AsCompleted ==
    /\ pc = "submit"
    /\ submitted = Len(wave_chunk_paths)
    /\ prefinished' = {c \in Range(wave_chunk_paths) : task[c] = "finished"}
    /\ pending' = Range(wave_chunk_paths) \ prefinished'
    /\ finished_futures' = <<>>
    /\ pc' = "collect"
    /\ UNCHANGED <<rest, config, waves, wave_idx, wave_chunk_paths, submitted, task, future,
                   calls, results, all_results, processed_waves, stopped, summary>>

\* One iteration of the as_completed loop over a future that had finished
\* before as_completed was called (set iteration order).
CollectFinished(c) ==
    /\ pc = "collect"
    /\ c \in prefinished
    /\ results' = Append(results, future[c])
    /\ prefinished' = prefinished \ {c}
    /\ UNCHANGED <<rest, config, pc, waves, wave_idx, wave_chunk_paths, submitted, task,
                   future, calls, pending, finished_futures, all_results,
                   processed_waves, stopped, summary>>

\* One iteration of the as_completed loop over the next future the waiter
\* was notified of (finishing order).
CollectCompleted ==
    /\ pc = "collect"
    /\ prefinished = {}
    /\ finished_futures # <<>>
    /\ results' = Append(results, future[Head(finished_futures)])
    /\ pending' = pending \ {Head(finished_futures)}
    /\ finished_futures' = Tail(finished_futures)
    /\ UNCHANGED <<rest, config, pc, waves, wave_idx, wave_chunk_paths, submitted, task,
                   future, calls, prefinished, all_results, processed_waves, stopped,
                   summary>>

\* A mutant: process_wave returns with the first collected result, the
\* executor is not joined.
WaveCompleteFirstResult == results # <<>>

\* A mutant: process_wave returns right after submitting.
WaveCompleteFireAndForget == TRUE

\* The as_completed loop is exhausted and executor.shutdown(wait=True), run
\* by the with statement, has joined the workers.
WaveComplete ==
    /\ prefinished = {}
    /\ pending = {}
    /\ finished_futures = <<>>
    /\ \A c \in Range(wave_chunk_paths) : task[c] = "finished"

\* process_wave returns; all_results.extend, processed_waves = wave_idx and
\* the early-stop test on wave_results.
EndWave ==
    /\ pc = "collect"
    /\ WaveComplete
    /\ all_results' = all_results \o results
    /\ processed_waves' = wave_idx
    /\ IF HasConfidentRaises(results)
       THEN pc' = "raised" /\ stopped' = stopped
       ELSE /\ pc' = "loop"
            /\ stopped' = HasConfidentAnswer(results, min_high_confidence_chunks)
    /\ UNCHANGED <<rest, config, waves, wave_idx, wave_chunk_paths, submitted, task, future,
                   calls, prefinished, pending, finished_futures, results, summary>>

\* The loop is left (break or exhausted) and the summary is returned.
ReturnSummary ==
    /\ pc = "loop"
    /\ stopped \/ wave_idx = Len(waves)
    /\ summary' = Summary(waves, processed_waves, all_chunk_paths, all_results, stopped)
    /\ pc' = "done"
    /\ UNCHANGED <<rest, config, waves, wave_idx, wave_chunk_paths, submitted, task, future,
                   calls, prefinished, pending, finished_futures, results,
                   all_results, processed_waves, stopped>>

(***************************************************************************)
(* Worker threads of the wave's ThreadPoolExecutor: process_chunk          *)
(***************************************************************************)
\* ThreadPoolExecutor(max_workers=self.max_concurrent): a queued work item
\* starts when fewer than max_workers workers of the pool are busy.
WorkerAvailable ==
    Cardinality({c \in Range(wave_chunk_paths) : task[c] \in {"calling", "hung"}})
        < max_concurrent

\* The future of chunk c finishes with result r; a waiter installed by
\* as_completed is notified.
Finish(c, r) ==
    /\ task' = [task EXCEPT ![c] = "finished"]
    /\ future' = [future EXCEPT ![c] = r]
    /\ finished_futures' = IF pc = "collect" /\ c \in pending
                           THEN Append(finished_futures, c)
                           ELSE finished_futures

\* open(chunk_path) or f.read() raises: the except branch.
ReadFails(c) ==
    /\ task[c] = "queued"
    /\ WorkerAvailable
    /\ Finish(c, FailureResult(c, "read"))
    /\ UNCHANGED <<rest, config, mainv, pending, calls>>

\* The chunk is read and subagent_callback is invoked.
CallAnswer(c) ==
    /\ task[c] = "queued"
    /\ WorkerAvailable
    /\ task' = [task EXCEPT ![c] = "calling"]
    /\ calls' = [calls EXCEPT ![c] = @ + 1]
    /\ UNCHANGED <<rest, config, mainv, pending, future, finished_futures>>

AnswerReturns(c, p) ==
    /\ task[c] = "calling"
    /\ Finish(c, SuccessResult(c, p))
    /\ UNCHANGED <<rest, config, mainv, pending, calls>>

AnswerRaises(c) ==
    /\ task[c] = "calling"
    /\ Finish(c, FailureResult(c, "answer"))
    /\ UNCHANGED <<rest, config, mainv, pending, calls>>

\* subagent_callback never returns: no timeout bounds the call.
AnswerHangs(c) ==
    /\ task[c] = "calling"
    /\ task' = [task EXCEPT ![c] = "hung"]
    /\ UNCHANGED <<rest, config, mainv, pending, future, calls, finished_futures>>

MainThread ==
    \/ SplitRaises
    \/ SplitIntoWaves
    \/ BeginWave
    \/ Submit
    \/ AsCompleted
    \/ \E c \in Chunks : CollectFinished(c)
    \/ CollectCompleted
    \/ EndWave
    \/ ReturnSummary

Worker(c) ==
    \/ ReadFails(c)
    \/ CallAnswer(c)
    \/ \E p \in Payloads : AnswerReturns(c, p)
    \/ AnswerRaises(c)
    \/ AnswerHangs(c)

Next == MainThread \/ \E c \in Chunks : Worker(c)

Spec == Init /\ [][Next]_vars

\* The threads are scheduled fairly by the operating system.
FairSpec == Spec /\ WF_vars(MainThread) /\ \A c \in Chunks : WF_vars(Worker(c))

\* The runs of process_all_chunks with any query, the empty one included.
ConfigSpec == ConfigInit /\ [][Next]_vars

(***************************************************************************)
(* process_all_chunks with max_concurrent > 0 and an answer operation that *)
(* returns or raises on every call.                                        *)
(***************************************************************************)
TerminationInit ==
    /\ ProcessAllChunksEntered(1..MaxConcurrent, 1..MaxMinHigh, 0..MaxChunks, {"q"})
    /\ AsyncUnused
    /\ SingletonsUnused
    /\ ChunkerUnused
    /\ ExtractorUnused

ValidMainThread ==
    \/ SplitIntoWaves
    \/ BeginWave
    \/ Submit
    \/ AsCompleted
    \/ \E c \in Chunks : CollectFinished(c)
    \/ CollectCompleted
    \/ EndWave
    \/ ReturnSummary

ReturningWorker(c) ==
    \/ ReadFails(c)
    \/ CallAnswer(c)
    \/ \E p \in Payloads : AnswerReturns(c, p)
    \/ AnswerRaises(c)

TerminationNext == ValidMainThread \/ \E c \in Chunks : ReturningWorker(c)

\* The threads are scheduled fairly, and a call in progress ends.
TerminationSpec ==
    /\ TerminationInit
    /\ [][TerminationNext]_vars
    /\ WF_vars(ValidMainThread)
    /\ \A c \in Chunks : WF_vars(ReturningWorker(c))

(***************************************************************************)
(* process_all_chunks_async, run on the event loop after process_all_chunks *)
(* has returned or raised, with the same answer operation.                 *)
(***************************************************************************)
\* What reading a chunk and answering it gives, the same in both runs.
EquivPayloads ==
    {Dict(Num(90), Absent, Absent, Absent), Dict(Num(50), Absent, Absent, Absent)}

AnswerOutcomes ==
    {[kind |-> "returns", payload |-> p] : p \in EquivPayloads}
        \cup {[kind |-> "raises", payload |-> NoPayload],
              [kind |-> "unreadable", payload |-> NoPayload]}

SyncReturned == pc \in {"done", "raised"}

asyncv == <<a_pc, a_waves, a_wave_idx, a_all_results, a_processed_waves, a_stopped,
            a_summary>>

AsyncWaveChunkPaths == WaveChunkPaths(a_waves[a_wave_idx], max_concurrent)

\* range(0, len(all_chunk_paths), 0) raises ValueError.
AsyncSplitRaises ==
    /\ SyncReturned
    /\ a_pc = "start"
    /\ max_concurrent = 0
    /\ a_pc' = "raised"
    /\ UNCHANGED <<scheduler, chunker, extractor, singletons, answer, a_waves, a_wave_idx, a_task,
                   a_future, a_calls, a_all_results, a_processed_waves, a_stopped,
                   a_summary>>

AsyncSplitIntoWaves ==
    /\ SyncReturned
    /\ a_pc = "start"
    /\ max_concurrent # 0
    /\ a_waves' = Waves(all_chunk_paths, max_concurrent)
    /\ a_pc' = "loop"
    /\ UNCHANGED <<scheduler, chunker, extractor, singletons, answer, a_wave_idx, a_task, a_future,
                   a_calls, a_all_results, a_processed_waves, a_stopped, a_summary>>

\* process_wave_async: the tasks of the wave are made and gathered.
AsyncBeginWave ==
    /\ a_pc = "loop"
    /\ ~a_stopped
    /\ a_wave_idx < Len(a_waves)
    /\ a_wave_idx' = a_wave_idx + 1
    /\ a_task' = [c \in Chunks |->
                    IF c \in Range(WaveChunkPaths(a_waves[a_wave_idx + 1], max_concurrent))
                    THEN "created" ELSE a_task[c]]
    /\ a_pc' = "gather"
    /\ UNCHANGED <<scheduler, chunker, extractor, singletons, answer, a_waves, a_future, a_calls,
                   a_all_results, a_processed_waves, a_stopped, a_summary>>

\* process_chunk_async: open(chunk_path) or f.read() raises.
AsyncReadFails(c) ==
    /\ a_pc = "gather"
    /\ a_task[c] = "created"
    /\ answer[c].kind = "unreadable"
    /\ a_task' = [a_task EXCEPT ![c] = "done"]
    /\ a_future' = [a_future EXCEPT ![c] = FailureResult(c, "read")]
    /\ UNCHANGED <<scheduler, chunker, extractor, singletons, answer, asyncv, a_calls>>

\* process_chunk_async: the chunk is read and subagent_callback is awaited.
AsyncCallAnswer(c) ==
    /\ a_pc = "gather"
    /\ a_task[c] = "created"
    /\ answer[c].kind # "unreadable"
    /\ a_task' = [a_task EXCEPT ![c] = "awaiting"]
    /\ a_calls' = [a_calls EXCEPT ![c] = @ + 1]
    /\ UNCHANGED <<scheduler, chunker, extractor, singletons, answer, asyncv, a_future>>

\* process_chunk_async: the await returns or raises.
AsyncAnswered(c) ==
    /\ a_pc = "gather"
    /\ a_task[c] = "awaiting"
    /\ a_task' = [a_task EXCEPT ![c] = "done"]
    /\ a_future' = [a_future EXCEPT ![c] =
                      IF answer[c].kind = "returns"
                      THEN SuccessResult(c, answer[c].payload)
                      ELSE FailureResult(c, "answer")]
    /\ UNCHANGED <<scheduler, chunker, extractor, singletons, answer, asyncv, a_calls>>

\* asyncio.gather: the results of the tasks, in the order of the tasks.
Gathered == [i \in DOMAIN AsyncWaveChunkPaths |-> a_future[AsyncWaveChunkPaths[i]]]

\* A mutant: the loop is never left by break.
AsyncEndWaveNoBreak ==
    /\ a_pc = "gather"
    /\ \A c \in Range(AsyncWaveChunkPaths) : a_task[c] = "done"
    /\ a_all_results' = a_all_results \o Gathered
    /\ a_processed_waves' = a_wave_idx
    /\ IF HasConfidentRaises(Gathered)
       THEN a_pc' = "raised" /\ a_stopped' = a_stopped
       ELSE a_pc' = "loop" /\ a_stopped' = FALSE
    /\ UNCHANGED <<scheduler, chunker, extractor, singletons, answer, a_waves, a_wave_idx, a_task,
                   a_future, a_calls, a_summary>>

\* gather returns; all_results.extend, processed_waves = wave_idx and the
\* early-stop test on wave_results.
AsyncEndWave ==
    /\ a_pc = "gather"
    /\ \A c \in Range(AsyncWaveChunkPaths) : a_task[c] = "done"
    /\ a_all_results' = a_all_results \o Gathered
    /\ a_processed_waves' = a_wave_idx
    /\ IF HasConfidentRaises(Gathered)
       THEN a_pc' = "raised" /\ a_stopped' = a_stopped
       ELSE /\ a_pc' = "loop"
            /\ a_stopped' = HasConfidentAnswer(Gathered, min_high_confidence_chunks)
    /\ UNCHANGED <<scheduler, chunker, extractor, singletons, answer, a_waves, a_wave_idx, a_task,
                   a_future, a_calls, a_summary>>

AsyncReturnSummary ==
    /\ a_pc = "loop"
    /\ a_stopped \/ a_wave_idx = Len(a_waves)
    /\ a_summary' = Summary(a_waves, a_processed_waves, all_chunk_paths, a_all_results,
                            a_stopped)
    /\ a_pc' = "done"
    /\ UNCHANGED <<scheduler, chunker, extractor, singletons, answer, a_waves, a_wave_idx, a_task,
                   a_future, a_calls, a_all_results, a_processed_waves, a_stopped>>

EventLoop ==
    \/ AsyncSplitRaises
    \/ AsyncSplitIntoWaves
    \/ AsyncBeginWave
    \/ \E c \in Chunks : AsyncReadFails(c) \/ AsyncCallAnswer(c) \/ AsyncAnswered(c)
    \/ AsyncEndWave
    \/ AsyncReturnSummary

\* A worker of process_all_chunks under the fixed answer operation.
AnsweringWorker(c) ==
    \/ answer[c].kind = "unreadable" /\ ReadFails(c)
    \/ answer[c].kind # "unreadable" /\ CallAnswer(c)
    \/ answer[c].kind = "returns" /\ AnswerReturns(c, answer[c].payload)
    \/ answer[c].kind = "raises" /\ AnswerRaises(c)

\* Both operations are called with the same processor, chunk list, query and
\* answer operation.
EquivInit ==
    /\ ProcessAllChunksEntered(-1..MaxConcurrent, 1..MaxMinHigh, 0..MaxChunks, {"q"})
    /\ \E f \in [Chunks -> AnswerOutcomes \cup {AnyAnswer}] :
          /\ \A c \in Chunks : f[c] = AnyAnswer <=> c \notin Range(all_chunk_paths)
          /\ ProcessAllChunksAsyncEntered(f, "start")
    /\ SingletonsUnused
    /\ ChunkerUnused
    /\ ExtractorUnused

EquivNext == MainThread \/ (\E c \in Chunks : AnsweringWorker(c)) \/ EventLoop

EquivSpec == EquivInit /\ [][EquivNext]_vars

(***************************************************************************)
(* _extract_confidence as a function of its argument.                      *)
(***************************************************************************)
\* The values a field of a payload dict can hold.
FieldValues == {Absent, NonNum, Num(-10), Num(0), Num(90), Num(150)}

DictPayloads ==
    {Dict(a, b, c, d) : a \in FieldValues, b \in FieldValues,
                        c \in {Absent, Num(50)}, d \in {Absent, NonNum, Num(70)}}

\* The result dicts process_chunk can build.
ResultDicts ==
    {SuccessResult(1, p) : p \in DictPayloads \cup {NonDictPayload}}
        \cup {FailureResult(1, "answer")}

\* No run of process_all_chunks is under way.
\* Neither process_all_chunks nor process_all_chunks_async does anything.
WaveRunsUnused ==
    /\ ProcessAllChunksEntered({1}, {1}, {0}, {"q"})
    /\ AsyncUnused

SchedulerUnused ==
    /\ WaveRunsUnused
    /\ SingletonsUnused

ExtractInit ==
    /\ SchedulerUnused
    /\ ChunkerUnused
    /\ extract_arg \in ResultDicts
    /\ extract_ret = NotCalled

\* self._extract_confidence(result) returns.
ExtractReturns ==
    /\ extract_ret = NotCalled
    /\ ~ExtractRaises(extract_arg)
    /\ extract_ret' = [state |-> "returned", value |-> ExtractConfidence(extract_arg)]
    /\ UNCHANGED <<scheduler, chunker, asyncrun, singletons, extract_arg>>

\* self._extract_confidence(result) raises AttributeError.
ExtractFails ==
    /\ extract_ret = NotCalled
    /\ ExtractRaises(extract_arg)
    /\ extract_ret' = [state |-> "raised", value |-> 0]
    /\ UNCHANGED <<scheduler, chunker, asyncrun, singletons, extract_arg>>

ExtractNext == ExtractReturns \/ ExtractFails

ExtractSpec == ExtractInit /\ [][ExtractNext]_vars

(***************************************************************************)
(* adaptive-chunker.py: AdaptiveChunker.                                   *)
(*                                                                         *)
(* A text is a sequence of characters; content[start:end] of the source is *)
(* SubSeq(content, start + 1, end).  The texts of the model are written    *)
(* over Char; none of them is a JSON text.                                 *)
(***************************************************************************)
MaxTextLen == 7
MaxSize == 3
MaxMaxChunks == 2
MaxObservations == 2
MaxFrameTextLen == 3

NL == "\n"
Char == {"a", NL}
TextsUpTo(len) == UNION {[1..n -> Char] : n \in 0..len}
Texts == TextsUpTo(MaxTextLen)

Whitespace == {" ", NL, "\t"}
Digits == {"0", "1", "2", "3", "4", "5", "6", "7", "8", "9"}

\* s[i:] starts with the word w (i counts from 0).
StartsWithAt(s, i, w) ==
    /\ i + Len(w) <= Len(s)
    /\ \A j \in 1..Len(w) : s[i + j] = w[j]

\* str.strip()
RECURSIVE LStrip(_)
LStrip(s) == IF s # <<>> /\ Head(s) \in Whitespace THEN LStrip(Tail(s)) ELSE s

RECURSIVE RStrip(_)
RStrip(s) ==
    IF s # <<>> /\ s[Len(s)] \in Whitespace THEN RStrip(SubSeq(s, 1, Len(s) - 1)) ELSE s

Strip(s) == RStrip(LStrip(s))

\* r"^\[\d{4}-\d{2}-\d{2}]" at offset i.
LogPrefixAt(s, i) ==
    /\ i + 12 <= Len(s)
    /\ s[i + 1] = "["
    /\ \A j \in {2, 3, 4, 5, 7, 8, 10, 11} : s[i + j] \in Digits
    /\ s[i + 6] = "-"
    /\ s[i + 9] = "-"
    /\ s[i + 12] = "]"

\* k characters '#' at offset i, followed by a whitespace character.
HashesAt(s, i, k) ==
    /\ i + k + 1 <= Len(s)
    /\ \A j \in 1..k : s[i + j] = "#"
    /\ s[i + k + 1] \in Whitespace

\* The word w at offset i, followed by whitespace and then by '('.
RECURSIVE ParenAfter(_, _)
ParenAfter(s, i) ==
    /\ i + 1 <= Len(s)
    /\ \/ s[i + 1] = "("
       \/ s[i + 1] \in Whitespace /\ ParenAfter(s, i + 1)

CodeKeywords ==
    {<<"i", "m", "p", "o", "r", "t">>,
     <<"d", "e", "f">>,
     <<"c", "l", "a", "s", "s">>,
     <<"f", "r", "o", "m">>,
     <<"f", "u", "n", "c", "t", "i", "o", "n">>,
     <<"c", "o", "n", "s", "t">>,
     <<"l", "e", "t">>,
     <<"v", "a", "r">>,
     <<"i", "n", "t", "e", "r", "f", "a", "c", "e">>,
     <<"t", "y", "p", "e">>}

ModifierKeywords ==
    {<<"p", "u", "b", "l", "i", "c">>,
     <<"p", "r", "i", "v", "a", "t", "e">>,
     <<"p", "r", "o", "t", "e", "c", "t", "e", "d">>,
     <<"a", "s", "y", "n", "c">>,
     <<"a", "w", "a", "i", "t">>}

StatementKeywords ==
    {<<"i", "f">>,
     <<"f", "o", "r">>,
     <<"w", "h", "i", "l", "e">>,
     <<"s", "w", "i", "t", "c", "h">>,
     <<"t", "r", "y">>,
     <<"c", "a", "t", "c", "h">>,
     <<"r", "e", "t", "u", "r", "n">>}

\* _compile_content_type_patterns: the 'code' patterns.
MatchesCode(s) ==
    \/ \E w \in CodeKeywords \cup ModifierKeywords :
          /\ StartsWithAt(s, 0, w)
          /\ Len(s) > Len(w)
          /\ s[Len(w) + 1] \in Whitespace
    \/ \E w \in StatementKeywords : StartsWithAt(s, 0, w) /\ ParenAfter(s, Len(w))

\* detect_content_type
DetectContentType(text) ==
    LET s == Strip(text)
    IN  IF Len(s) >= 2 /\ s[1] = "{" /\ s[Len(s)] = "}" THEN "json"
        ELSE IF Len(s) >= 2 /\ s[1] = "[" /\ s[Len(s)] = "]" THEN "json"
        ELSE IF \E k \in 1..6 : HashesAt(s, 0, k) THEN "markdown"
        ELSE IF LogPrefixAt(s, 0) THEN "log"
        ELSE IF MatchesCode(s) THEN "code"
        ELSE "text"

\* The offsets at which a line of s starts (re.MULTILINE ^).
LineStarts(s) == {0} \cup {i \in 1..(Len(s) - 1) : s[i] = NL}

DeclarationWords ==
    {<<"d", "e", "f", " ">>,
     <<"c", "l", "a", "s", "s", " ">>,
     <<"f", "u", "n", "c", "t", "i", "o", "n", " ">>,
     <<"i", "n", "t", "e", "r", "f", "a", "c", "e", " ">>,
     <<"t", "y", "p", "e", " ">>,
     <<"s", "t", "r", "u", "c", "t", " ">>}

ModifierWords ==
    {<<"p", "u", "b", "l", "i", "c", " ">>,
     <<"p", "r", "i", "v", "a", "t", "e", " ">>,
     <<"p", "r", "o", "t", "e", "c", "t", "e", "d", " ">>,
     <<"s", "t", "a", "t", "i", "c", " ">>,
     <<"a", "s", "y", "n", "c", " ">>}

ModifiedWords ==
    {<<"d", "e", "f", " ">>,
     <<"c", "l", "a", "s", "s", " ">>,
     <<"f", "u", "n", "c", "t", "i", "o", "n", " ">>}

\* w at offset i, then one or more whitespace characters, then a word of ws.
RECURSIVE WordAfterSpace(_, _, _)
WordAfterSpace(s, i, ws) ==
    /\ i + 1 <= Len(s)
    /\ s[i + 1] \in Whitespace
    /\ \/ \E w \in ws : StartsWithAt(s, i + 1, w)
       \/ WordAfterSpace(s, i + 1, ws)

\* _compile_semantic_patterns and finditer: the offsets m.start() of the
\* matches of the patterns of a content type.  For "json" these are the
\* matches of the pattern used when json.loads fails.
PatternStarts(s, type) ==
    IF type = "text"
    THEN {i \in 0..(Len(s) - 2) :
             /\ s[i + 1] = NL
             /\ s[i + 2] = NL
             /\ i = 0 \/ s[i] # NL}
    ELSE IF type = "markdown"
    THEN {i \in LineStarts(s) : \E k \in 2..4 : HashesAt(s, i, k)}
    ELSE IF type = "log"
    THEN {i \in LineStarts(s) : LogPrefixAt(s, i)}
    ELSE IF type = "code"
    THEN {i \in LineStarts(s) :
             \/ \E w \in DeclarationWords : StartsWithAt(s, i, w)
             \/ \E w \in ModifierWords :
                   /\ StartsWithAt(s, i, w)
                   /\ WordAfterSpace(s, i + Len(w), ModifiedWords)}
    ELSE {i \in 0..(Len(s) - 2) : s[i + 1] = NL /\ s[i + 2] \in {"{", "["}}

\* sorted(set(boundaries))
RECURSIVE Sorted(_)
Sorted(S) ==
    IF S = {} THEN <<>>
    ELSE LET m == CHOOSE x \in S : \A y \in S : x <= y
         IN  <<m>> \o Sorted(S \ {m})

\* find_semantic_boundaries
FindSemanticBoundaries(text, type) ==
    Sorted({0} \cup PatternStarts(text, type) \cup {Len(text)})

Piece(c, i) == [chunk |-> c, index |-> i]

\* A mutant: a last sub-chunk shorter than max_size is dropped.
SplitLargeChunkWhole(chunk, max_size) ==
    [j \in 1..(Len(chunk) \div max_size) |->
        Piece(SubSeq(chunk, (j - 1) * max_size + 1, j * max_size), j - 1)]

\* _split_large_chunk
SplitLargeChunk(chunk, max_size) ==
    [j \in 1..((Len(chunk) + max_size - 1) \div max_size) |->
        Piece(SubSeq(chunk, (j - 1) * max_size + 1, Min(j * max_size, Len(chunk))),
              j - 1)]

\* A mutant: a short span is merged with the next one, and the next one is
\* then visited again.
RECURSIVE FirstPassRevisit(_, _, _, _, _)
FirstPassRevisit(text, b, i, size, acc) ==
    IF i > Len(b) - 1 THEN acc
    ELSE LET chunk == SubSeq(text, b[i] + 1, b[i + 1])
         IN  IF Len(chunk) > size * 2
             THEN FirstPassRevisit(text, b, i + 1, size,
                                   acc \o SplitLargeChunk(chunk, size))
             ELSE IF 2 * Len(chunk) < size /\ i < Len(b) - 1
             THEN FirstPassRevisit(text, b, i + 1, size,
                                   Append(acc, Piece(SubSeq(text, b[i] + 1, b[i + 2]),
                                                     Len(acc))))
             ELSE FirstPassRevisit(text, b, i + 1, size,
                                   Append(acc, Piece(chunk, Len(acc))))

\* create_adaptive_chunks: the while loop over the boundaries, from the
\* boundary b[i] on (i counts from 1), acc being the list chunks.
RECURSIVE FirstPass(_, _, _, _, _)
FirstPass(text, b, i, size, acc) ==
    IF i > Len(b) - 1 THEN acc
    ELSE LET chunk == SubSeq(text, b[i] + 1, b[i + 1])
         IN  IF Len(chunk) > size * 2
             THEN FirstPass(text, b, i + 1, size, acc \o SplitLargeChunk(chunk, size))
             ELSE IF 2 * Len(chunk) < size
             THEN IF i < Len(b) - 1
                  THEN FirstPass(text, b, i + 2, size,
                                 Append(acc, Piece(SubSeq(text, b[i] + 1, b[i + 2]),
                                                   Len(acc))))
                  ELSE FirstPass(text, b, i + 1, size, Append(acc, Piece(chunk, Len(acc))))
             ELSE FirstPass(text, b, i + 1, size, Append(acc, Piece(chunk, Len(acc))))

\* create_adaptive_chunks: the loop of the second pass over chunks[k..],
\* with current_chunk and merged_chunks, and what follows it.
RECURSIVE SecondPass(_, _, _, _, _)
SecondPass(cs, k, current, merged, target) ==
    IF k > Len(cs)
    THEN IF current # <<>> THEN Append(merged, Piece(current, Len(merged))) ELSE merged
    ELSE IF Len(current) + Len(cs[k].chunk) <= target
         THEN SecondPass(cs, k + 1, current \o cs[k].chunk, merged, target)
         ELSE SecondPass(cs, k + 1, cs[k].chunk,
                         IF current # <<>>
                         THEN Append(merged, Piece(current, Len(merged)))
                         ELSE merged,
                         target)

\* create_adaptive_chunks(content, max_chunks) with self.chunk_size = size;
\* mc = 0 stands for max_chunks None (and for 0, which is as falsy).
CreateAdaptiveChunks(text, size, mc) ==
    LET boundaries == FindSemanticBoundaries(text, DetectContentType(text))
        first == FirstPass(text, boundaries, 1, size, <<>>)
    IN  IF mc # 0 /\ Len(first) > mc
        THEN SecondPass(first, 1, <<>>, <<>>, Len(text) \div mc)
        ELSE first

\* The values k up to 200 for which the double k * 0.7 lies below the
\* integer 7k / 10, so that int() gives one less.
FloatShortfall == {90, 170, 180}

\* int(self.chunk_size * 1.2)
Times12(k) == (k * 12) \div 10

\* int(self.chunk_size * 0.7)
Times07(k) == IF k \in FloatShortfall THEN (k * 7) \div 10 - 1 ELSE (k * 7) \div 10

Max(a, b) == IF a > b THEN a ELSE b

\* adjust_chunk_size: the new self.chunk_size.
AdjustedSize(size, lo, hi, t) ==
    IF t < 5000 THEN Min(Times12(size), hi)
    ELSE IF t > 15000 THEN Max(Times07(size), lo)
    ELSE size

\* The value of chunks while create_adaptive_chunks has not returned.
NotChunked == <<Piece(<<>>, -1)>>

RECURSIVE Sum(_, _)
Sum(ts, k) == IF k = 0 THEN 0 ELSE Sum(ts, k - 1) + ts[k]

\* get_stats: the dictionary returned; the average is kept as the pair of
\* sum(processing_times) and len(processing_times) it is the quotient of.
Stats(size, lo, hi, optimal, times) ==
    [current_chunk_size |-> size,
     min_chunk_size |-> lo,
     max_chunk_size |-> hi,
     optimal_time_ms |-> optimal,
     adjustments_made |-> Len(times),
     avg_processing_time_ms |-> IF times = <<>> THEN <<0, 1>> ELSE <<Sum(times, Len(times)), Len(times)>>,
     processing_times |-> times,
     size_adjustments |-> Cardinality({k \in DOMAIN times : times[k] < 5000 \/ times[k] > 15000})]

\* The value of stats while get_stats has not returned.
NoStats == [called |-> FALSE]

\* AdaptiveChunker(initial, lo, hi), sizes in the given sets, in the hands of
\* a caller that holds a text of texts and a max_chunks argument of mcs.
ChunkerConstructed(initials, los, his, texts, mcs) ==
    /\ chunk_size \in initials
    /\ min_chunk_size \in los
    /\ max_chunk_size \in his
    /\ optimal_time = 10000
    /\ processing_times = <<>>
    /\ content \in texts
    /\ max_chunks \in mcs
    /\ content_type = "none"
    /\ stats = NoStats
    /\ chunks = NotChunked

\* chunker.create_adaptive_chunks(content, max_chunks)
CreateAdaptiveChunksCall ==
    /\ content_type' = DetectContentType(content)
    /\ chunks' = CreateAdaptiveChunks(content, chunk_size, max_chunks)
    /\ UNCHANGED <<scheduler, extractor, asyncrun, singletons, chunk_size, min_chunk_size, max_chunk_size,
                   optimal_time, processing_times, content, max_chunks, stats>>

\* A mutant: the chunks already returned are made anew with the new size.
AdjustChunkSizeRechunk(t) ==
    /\ Len(processing_times) < MaxObservations
    /\ processing_times' = Append(processing_times, t)
    /\ chunk_size' = AdjustedSize(chunk_size, min_chunk_size, max_chunk_size, t)
    /\ chunks' = IF chunks = NotChunked THEN chunks
                 ELSE CreateAdaptiveChunks(content,
                          AdjustedSize(chunk_size, min_chunk_size, max_chunk_size, t),
                          max_chunks)
    /\ UNCHANGED <<scheduler, extractor, asyncrun, singletons, min_chunk_size, max_chunk_size, optimal_time,
                   content, max_chunks, content_type, stats>>

\* chunker.adjust_chunk_size(t)
AdjustChunkSize(t) ==
    /\ Len(processing_times) < MaxObservations
    /\ processing_times' = Append(processing_times, t)
    /\ chunk_size' = AdjustedSize(chunk_size, min_chunk_size, max_chunk_size, t)
    /\ UNCHANGED <<scheduler, extractor, asyncrun, singletons, min_chunk_size, max_chunk_size, optimal_time,
                   content, max_chunks, content_type, stats, chunks>>

\* chunker.get_stats()
GetStats ==
    /\ stats' = Stats(chunk_size, min_chunk_size, max_chunk_size, optimal_time,
                      processing_times)
    /\ UNCHANGED <<scheduler, extractor, asyncrun, singletons, chunk_size, min_chunk_size, max_chunk_size,
                   optimal_time, processing_times, content, max_chunks, content_type,
                   chunks>>

\* A chunker built with min_chunk_size <= initial_chunk_size <= max_chunk_size
\* chunks a text, before and after it is fed durations.
ChunkerInit ==
    /\ SchedulerUnused
    /\ ExtractorUnused
    /\ ChunkerConstructed(1..MaxSize, {1}, {MaxSize}, Texts, 0..MaxMaxChunks)

\* Sizes this small are not changed by the 20% step (int(k * 1.2) = k for
\* k < 5), so the durations fed here are slow ones.
ChunkerNext ==
    \/ CreateAdaptiveChunksCall
    \/ \E t \in {15001} : AdjustChunkSize(t)

ChunkerSpec == ChunkerInit /\ [][ChunkerNext]_vars

\* A chunker built with any initial_chunk_size, and with
\* min_chunk_size <= max_chunk_size, is fed durations.
ControllerSizes == {1, 50, 90, 100, 200}

ControllerInit ==
    /\ SchedulerUnused
    /\ ExtractorUnused
    /\ ChunkerConstructed(ControllerSizes, ControllerSizes, ControllerSizes, {<<>>}, {0})
    /\ min_chunk_size <= max_chunk_size

ControllerNext == \E t \in {4999, 5000, 15000, 15001} : AdjustChunkSize(t)

ControllerSpec == ControllerInit /\ [][ControllerNext]_vars

\* Texts to classify: a lead, a head and a tail.
Leads ==
    {<<>>,
     <<" ">>,
     <<"\n">>}

Heads ==
    {<<"{">>,
     <<"[">>,
     <<"[", "2", "0", "2", "4", "-", "0", "1", "-", "0", "1", "]">>,
     <<"[", "2", "0", "2", "4", "-", "0", "1", "-", "0", "1">>,
     <<"#", " ">>,
     <<"#">>,
     <<"#", "#", "#", "#", "#", "#", "#", " ">>,
     <<"d", "e", "f", " ">>,
     <<"d", "e", "f">>,
     <<"i", "f", "(">>,
     <<"i", "f", " ", "(">>,
     <<"a", "w", "a", "i", "t", "\n">>,
     <<"a">>}

Tails ==
    {<<>>,
     <<"a">>,
     <<"}">>,
     <<"]">>,
     <<"a", "]", "\n">>,
     <<" ", "}">>}

ClassifyTexts == {l \o h \o t : l \in Leads, h \in Heads, t \in Tails}

\* chunker.detect_content_type(content)
DetectContentTypeCall ==
    /\ content_type = "none"
    /\ content_type' = DetectContentType(content)
    /\ UNCHANGED <<scheduler, extractor, asyncrun, singletons, chunk_size, min_chunk_size, max_chunk_size,
                   optimal_time, processing_times, content, max_chunks, stats, chunks>>

\* A chunker is used through all its operations on a short text.
FrameInit ==
    /\ SchedulerUnused
    /\ ExtractorUnused
    /\ ChunkerConstructed(1..MaxSize, {1}, {MaxSize}, TextsUpTo(MaxFrameTextLen),
                          0..MaxMaxChunks)

FrameNext ==
    \/ CreateAdaptiveChunksCall
    \/ DetectContentTypeCall
    \/ GetStats
    \/ \E t \in {4999, 15001} : AdjustChunkSize(t)

FrameSpec == FrameInit /\ [][FrameNext]_vars

\* A chunker built with the default sizes classifies a text.
DefaultSize == 50000
DefaultMaxSize == 200000

ClassifyInit ==
    /\ SchedulerUnused
    /\ ExtractorUnused
    /\ ChunkerConstructed({DefaultSize}, {DefaultSize}, {DefaultMaxSize}, ClassifyTexts, {0})

ClassifyNext == DetectContentTypeCall

ClassifySpec == ClassifyInit /\ [][ClassifyNext]_vars

(***************************************************************************)
(* get_parallel_processor and get_adaptive_chunker, called by threads.     *)
(***************************************************************************)
GetterArgs == {1, 2}

others == <<scheduler, chunker, extractor, asyncrun>>
pgetter == <<p_instance, p_lock, p_pc, p_args, p_ret, p_constructed>>
cgetter == <<c_instance, c_pc, c_args, c_ret, c_constructed>>

\* Thread t calls get_parallel_processor(max_concurrent=a).
PCall(t, a) ==
    /\ p_pc[t] = "idle"
    /\ p_args' = [p_args EXCEPT ![t] = a]
    /\ p_pc' = [p_pc EXCEPT ![t] = "check"]
    /\ UNCHANGED <<others, cgetter, p_instance, p_lock, p_ret, p_constructed>>

\* if _processor_instance is None:
PCheck(t) ==
    /\ p_pc[t] = "check"
    /\ p_pc' = [p_pc EXCEPT ![t] = IF p_instance = None THEN "acquire" ELSE "return"]
    /\ UNCHANGED <<others, cgetter, p_instance, p_lock, p_args, p_ret, p_constructed>>

\* with _instance_lock:
PAcquire(t) ==
    /\ p_pc[t] = "acquire"
    /\ p_lock = 0
    /\ p_lock' = t
    /\ p_pc' = [p_pc EXCEPT ![t] = "recheck"]
    /\ UNCHANGED <<others, cgetter, p_instance, p_args, p_ret, p_constructed>>

\* A mutant: the test under the lock is left out.
PRecheckBlind(t) ==
    /\ p_pc[t] = "recheck"
    /\ p_pc' = [p_pc EXCEPT ![t] = "construct"]
    /\ UNCHANGED <<others, cgetter, p_instance, p_lock, p_args, p_ret, p_constructed>>

\* if _processor_instance is None:  (under the lock)
PRecheck(t) ==
    /\ p_pc[t] = "recheck"
    /\ p_pc' = [p_pc EXCEPT ![t] = IF p_instance = None THEN "construct" ELSE "release"]
    /\ UNCHANGED <<others, cgetter, p_instance, p_lock, p_args, p_ret, p_constructed>>

\* _processor_instance = ParallelWaveProcessor(max_concurrent=...)
PConstruct(t) ==
    /\ p_pc[t] = "construct"
    /\ p_constructed' = p_constructed + 1
    /\ p_instance' = [id |-> p_constructed + 1, arg |-> p_args[t]]
    /\ p_pc' = [p_pc EXCEPT ![t] = "release"]
    /\ UNCHANGED <<others, cgetter, p_lock, p_args, p_ret>>

\* The with block is left.
PRelease(t) ==
    /\ p_pc[t] = "release"
    /\ p_lock' = 0
    /\ p_pc' = [p_pc EXCEPT ![t] = "return"]
    /\ UNCHANGED <<others, cgetter, p_instance, p_args, p_ret, p_constructed>>

\* return _processor_instance
PReturn(t) ==
    /\ p_pc[t] = "return"
    /\ p_ret' = [p_ret EXCEPT ![t] = p_instance]
    /\ p_pc' = [p_pc EXCEPT ![t] = "done"]
    /\ UNCHANGED <<others, cgetter, p_instance, p_lock, p_args, p_constructed>>

ProcessorGetterInit ==
    /\ WaveRunsUnused
    /\ ChunkerUnused
    /\ ExtractorUnused
    /\ ProcessorGetterLoaded("idle")
    /\ ChunkerGetterLoaded("unused")

ProcessorGetterNext ==
    \E t \in Threads :
        \/ \E a \in GetterArgs : PCall(t, a)
        \/ PCheck(t)
        \/ PAcquire(t)
        \/ PRecheck(t)
        \/ PConstruct(t)
        \/ PRelease(t)
        \/ PReturn(t)

ProcessorGetterSpec == ProcessorGetterInit /\ [][ProcessorGetterNext]_vars

\* Thread t calls get_adaptive_chunker(initial_chunk_size=a).
CCall(t, a) ==
    /\ c_pc[t] = "idle"
    /\ c_args' = [c_args EXCEPT ![t] = a]
    /\ c_pc' = [c_pc EXCEPT ![t] = "check"]
    /\ UNCHANGED <<others, pgetter, c_instance, c_ret, c_constructed>>

\* if _chunker_instance is None:
CCheck(t) ==
    /\ c_pc[t] = "check"
    /\ c_pc' = [c_pc EXCEPT ![t] = IF c_instance = None THEN "construct" ELSE "return"]
    /\ UNCHANGED <<others, pgetter, c_instance, c_args, c_ret, c_constructed>>

\* _chunker_instance = AdaptiveChunker(initial_chunk_size=...)
CConstruct(t) ==
    /\ c_pc[t] = "construct"
    /\ c_constructed' = c_constructed + 1
    /\ c_instance' = [id |-> c_constructed + 1, arg |-> c_args[t]]
    /\ c_pc' = [c_pc EXCEPT ![t] = "return"]
    /\ UNCHANGED <<others, pgetter, c_args, c_ret>>

\* return _chunker_instance
CReturn(t) ==
    /\ c_pc[t] = "return"
    /\ c_ret' = [c_ret EXCEPT ![t] = c_instance]
    /\ c_pc' = [c_pc EXCEPT ![t] = "done"]
    /\ UNCHANGED <<others, pgetter, c_instance, c_args, c_constructed>>

ChunkerGetterInit ==
    /\ WaveRunsUnused
    /\ ChunkerUnused
    /\ ExtractorUnused
    /\ ProcessorGetterLoaded("unused")
    /\ ChunkerGetterLoaded("idle")

ChunkerGetterNext ==
    \E t \in Threads :
        \/ \E a \in GetterArgs : CCall(t, a)
        \/ CCheck(t)
        \/ CConstruct(t)
        \/ CReturn(t)

ChunkerGetterSpec == ChunkerGetterInit /\ [][ChunkerGetterNext]_vars

(***************************************************************************)
(* Notions the properties are stated with.                                 *)
(***************************************************************************)
WaveChunks(k) == Range(waves[k])

InFlight == {c \in Chunks : task[c] \in {"calling", "hung"}}

RECURSIVE SumLens(_, _)
SumLens(ws, k) == IF k = 0 THEN 0 ELSE Len(ws[k]) + SumLens(ws, k - 1)

\* The results process_wave returned for wave k, as they stand in all_results.
WaveResults(k) ==
    SubSeq(all_results, SumLens(waves, k - 1) + 1, SumLens(waves, k))

ResultsOf(rs, c) == {i \in DOMAIN rs : rs[i].chunk_id = c}

IsPrefix(s, t) == Len(s) <= Len(t) /\ \A i \in DOMAIN s : s[i] = t[i]

LaterChunks(k) == {c \in Chunks : \E j \in DOMAIN waves : j > k /\ c \in WaveChunks(j)}

(***************************************************************************)
(* C1. Wave barrier: no chunk of a wave is dispatched, and no answer call  *)
(* for it starts, before every call of every earlier wave has returned or  *)
(* raised.                                                                 *)
(***************************************************************************)
C1_WaveBarrier ==
    \A k \in DOMAIN waves : \A c \in WaveChunks(k) :
        task[c] # "idle" =>
            \A j \in 1..(k - 1) : \A d \in WaveChunks(j) : task[d] = "finished"

\* An answer call of the second wave is running after a first wave of two chunks.
C1_Witness ==
    /\ Len(waves) >= 2
    /\ Len(waves[1]) = 2
    /\ \E c \in WaveChunks(2) : task[c] = "calling"

(***************************************************************************)
(* C2. The scheduler stops dispatching waves as soon as the number of      *)
(* successful results of ALL waves executed so far with confidence above   *)
(* the threshold reaches min_high_confidence_chunks: no wave is in         *)
(* progress while that cumulative count is reached.                        *)
(***************************************************************************)
C2_CumulativeStop ==
    pc \in {"submit", "collect"} =>
        Cardinality(HighConfidence(all_results)) < min_high_confidence_chunks

C4_SubmissionOrder ==
    pc = "done" =>
        \A i, j \in DOMAIN summary.results :
            i < j => summary.results[i].chunk_id < summary.results[j].chunk_id

(***************************************************************************)
(* C5. Partial failure isolation: every completed wave has one result per  *)
(* chunk; a chunk whose answer call raised is recorded with success false  *)
(* and confidence 0, a chunk whose call returned with success true.        *)
(***************************************************************************)
C5_PartialFailureIsolation ==
    \A k \in 1..processed_waves :
        /\ Len(WaveResults(k)) = Len(waves[k])
        /\ \A c \in WaveChunks(k) :
              \E i \in DOMAIN WaveResults(k) :
                  LET r == WaveResults(k)[i]
                  IN  /\ r.chunk_id = c
                      /\ future[c].error = "answer" =>
                            ~r.success /\ ExtractConfidence(r) = 0
                      /\ future[c].error = "none" => r.success

\* A completed wave in which one call raised and a sibling returned.
C5_Witness ==
    \E k \in 1..processed_waves : \E c, d \in WaveChunks(k) :
        /\ future[c].error = "answer"
        /\ future[d].error = "none"
        /\ \E i \in DOMAIN all_results :
              all_results[i].chunk_id = d /\ all_results[i].success

(***************************************************************************)
(* C6. Summary invariant: processed_chunks is the sum of the sizes of the  *)
(* executed waves, processed_waves <= total_waves, and early_termination   *)
(* holds exactly when processed_waves < total_waves.                       *)
(***************************************************************************)
C6_SummaryInvariant ==
    pc = "done" =>
        /\ summary.processed_waves \in 0..Len(waves)
        /\ summary.processed_chunks = SumLens(waves, summary.processed_waves)
        /\ summary.processed_waves <= summary.total_waves
        /\ summary.early_termination <=>
              (summary.processed_waves < summary.total_waves)

\* A returned summary of an early-terminated run of several chunks.
C6_Witness ==
    /\ pc = "done"
    /\ summary.early_termination
    /\ summary.processed_chunks >= 2

(***************************************************************************)
(* C7. As claimed: whenever the wave loop is left because the stop         *)
(* condition is met, the summary reports early_termination, also when the  *)
(* condition is first met after the final wave.                            *)
(***************************************************************************)
C7_StopImpliesFlag ==
    (pc = "done" /\ stopped) => summary.early_termination

(***************************************************************************)
(* C7, amended. When the wave loop is left because the stop condition is   *)
(* met after wave k, the summary reports early_termination exactly when k  *)
(* is not the final wave.                                                  *)
(***************************************************************************)
C7_StopFlagUnlessFinalWave ==
    (pc = "done" /\ stopped) =>
        (summary.early_termination <=> processed_waves < Len(waves))

\* The loop was left by the break with waves left over.
C7_Witness ==
    /\ pc = "done"
    /\ stopped
    /\ processed_waves < Len(waves)
    /\ summary.early_termination

(***************************************************************************)
(* C8. As claimed: every chunk of an executed wave is passed to the answer *)
(* operation exactly once and has exactly one result in the summary, no    *)
(* chunk of a non-executed wave has a result, and a recorded result is     *)
(* never modified.                                                         *)
(***************************************************************************)
C8_ExactlyOnce ==
    /\ [](pc = "done" =>
            \A k \in DOMAIN waves : \A c \in WaveChunks(k) :
                IF k <= summary.processed_waves
                THEN calls[c] = 1 /\ Cardinality(ResultsOf(summary.results, c)) = 1
                ELSE ResultsOf(summary.results, c) = {})
    /\ [][IsPrefix(all_results, all_results')]_vars

(***************************************************************************)
(* C8, amended. Every chunk of an executed wave is passed to the answer    *)
(* operation at most once, exactly once unless reading its chunk file      *)
(* failed, and has exactly one result in the summary; no chunk of a        *)
(* non-executed wave is passed to the answer operation or has a result; a  *)
(* recorded result is never modified.                                      *)
(***************************************************************************)
C8_AtMostOnce ==
    /\ [](pc = "done" =>
            \A k \in DOMAIN waves : \A c \in WaveChunks(k) :
                IF k <= summary.processed_waves
                THEN /\ calls[c] = (IF future[c].error = "read" THEN 0 ELSE 1)
                     /\ Cardinality(ResultsOf(summary.results, c)) = 1
                ELSE calls[c] = 0 /\ ResultsOf(summary.results, c) = {})
    /\ [][IsPrefix(all_results, all_results')]_vars

\* A returned run with a called chunk, an unreadable chunk and a chunk of a
\* wave that was not executed.
C8_Witness ==
    /\ pc = "done"
    /\ summary.processed_waves < Len(waves)
    /\ \E c, d \in WaveChunks(1) : calls[c] = 1 /\ future[d].error = "read"

(***************************************************************************)
(* C9. Bounded concurrency: at most max_concurrent answer calls are in     *)
(* flight, and all calls in flight belong to the same wave.                *)
(***************************************************************************)
C9_BoundedConcurrency ==
    /\ InFlight # {} => Cardinality(InFlight) <= max_concurrent
    /\ \A c, d \in InFlight : \A k \in DOMAIN waves :
          c \in WaveChunks(k) => d \in WaveChunks(k)

\* As many calls in flight as the bound allows, more than one.
C9_Witness ==
    /\ max_concurrent >= 2
    /\ Cardinality(InFlight) = max_concurrent

(***************************************************************************)
(* C10. Per-call timeout: an answer call that never returns is recorded as *)
(* a failed result and the run still returns its summary.                  *)
(***************************************************************************)
C10_PerCallTimeout ==
    \A c \in Chunks :
        (task[c] = "hung") ~>
            (pc = "done" /\ \E i \in DOMAIN summary.results :
                               /\ summary.results[i].chunk_id = c
                               /\ ~summary.results[i].success)

(***************************************************************************)
(* C11. The scheduler never fails on the shape of a payload: a run of      *)
(* process_all_chunks raises only for max_concurrent = 0, never because of *)
(* what the answer operation returned.                                     *)
(***************************************************************************)
C11_NeverFailsOnPayload ==
    pc = "raised" => max_concurrent = 0

(***************************************************************************)
(* C12. Configuration errors are fatal: with max_concurrent <= 0 or an     *)
(* empty query, process_all_chunks returns no summary and invokes the      *)
(* answer operation for no chunk.                                          *)
(***************************************************************************)
C12_ConfigErrorsFatal ==
    (max_concurrent <= 0 \/ query = "") =>
        /\ pc # "done"
        /\ \A c \in Chunks : task[c] = "idle" /\ calls[c] = 0

(***************************************************************************)
(* C13. Empty input: on a processor with max_concurrent > 0, a run over an *)
(* empty chunk list does not raise, never invokes the answer operation and *)
(* returns a summary with processed_waves = 0, total_waves = 0,            *)
(* processed_chunks = 0 and early_termination false.                       *)
(***************************************************************************)
C13_EmptyInput ==
    (all_chunk_paths = <<>> /\ max_concurrent > 0) =>
        /\ pc # "raised"
        /\ wave_idx = 0
        /\ \A c \in Chunks : task[c] = "idle" /\ calls[c] = 0
        /\ pc = "done" =>
              /\ summary.processed_waves = 0
              /\ summary.total_waves = 0
              /\ summary.processed_chunks = 0
              /\ summary.results = <<>>
              /\ ~summary.early_termination

\* The run over an empty list has returned.
C13_Witness ==
    /\ all_chunk_paths = <<>>
    /\ max_concurrent > 0
    /\ pc = "done"

(***************************************************************************)
(* C14. Total failure: on a processor with max_concurrent > 0, a run in    *)
(* which every answer call made has raised does not raise itself, and the  *)
(* summary it returns has successful_chunks = 0, processed_chunks =        *)
(* total_chunks, processed_waves = total_waves and early_termination       *)
(* false.                                                                  *)
(***************************************************************************)
EveryCallRaised ==
    \A c \in Chunks : task[c] = "finished" => future[c].error = "answer"

C14_TotalFailure ==
    (max_concurrent > 0 /\ EveryCallRaised) =>
        /\ pc # "raised"
        /\ ~stopped
        /\ pc = "done" =>
              /\ summary.successful_chunks = 0
              /\ summary.total_chunks = Len(all_chunk_paths)
              /\ summary.processed_chunks = summary.total_chunks
              /\ summary.processed_waves = summary.total_waves
              /\ ~summary.early_termination

\* A run of two waves in which every call raised has returned.
C14_Witness ==
    /\ pc = "done"
    /\ EveryCallRaised
    /\ Len(waves) >= 2
    /\ \A c \in Range(all_chunk_paths) : calls[c] = 1

(***************************************************************************)
(* C15. Wave partition: for max_concurrent = m > 0 the waves are           *)
(* ceil(n / m) many, each non-empty and of at most m chunks, pairwise      *)
(* disjoint, and their concatenation in wave order is the input list; the  *)
(* waves are executed in that order.                                       *)
(***************************************************************************)
RECURSIVE Concat(_, _)
Concat(ws, k) == IF k = 0 THEN <<>> ELSE Concat(ws, k - 1) \o ws[k]

C15_WavePartition ==
    (max_concurrent > 0 /\ pc # "start") =>
        /\ Len(waves) * max_concurrent >= Len(all_chunk_paths)
        /\ (Len(waves) - 1) * max_concurrent < Len(all_chunk_paths)
               \/ Len(waves) = 0
        /\ \A k \in DOMAIN waves :
              Len(waves[k]) >= 1 /\ Len(waves[k]) <= max_concurrent
        /\ \A j, k \in DOMAIN waves : j # k => WaveChunks(j) \cap WaveChunks(k) = {}
        /\ Concat(waves, Len(waves)) = all_chunk_paths
        /\ wave_idx \in 0..Len(waves)
        /\ wave_idx >= 1 => wave_chunk_paths = waves[wave_idx]
        /\ \A k \in DOMAIN waves : \A c \in WaveChunks(k) :
              /\ k < wave_idx => task[c] = "finished"
              /\ k > wave_idx => task[c] = "idle"

\* Three chunks in waves of two and one, both executed.
C15_Witness ==
    /\ pc = "done"
    /\ Len(waves) = 2
    /\ Len(waves[1]) = 2
    /\ Len(waves[2]) = 1
    /\ processed_waves = 2

(***************************************************************************)
(* C16. Confidence fallback priority: for a dict payload,                  *)
(* _extract_confidence returns the first field among confidence,           *)
(* certainty, score, probability that holds a number, and 0 only when none *)
(* of them does.                                                           *)
(***************************************************************************)
FirstNumericField(p) ==
    IF p.confidence.t = "num" THEN p.confidence.v
    ELSE IF p.certainty.t = "num" THEN p.certainty.v
    ELSE IF p.score.t = "num" THEN p.score.v
    ELSE IF p.probability.t = "num" THEN p.probability.v
    ELSE 0

C16_FallbackPriority ==
    (extract_ret.state = "returned" /\ extract_arg.result.kind = "dict") =>
        extract_ret.value = FirstNumericField(extract_arg.result)

(***************************************************************************)
(* C17. Confidence range: the value _extract_confidence returns lies in    *)
(* [0, 1] (0..100 at the model's scale).                                   *)
(***************************************************************************)
C17_ConfidenceRange ==
    extract_ret.state = "returned" =>
        extract_ret.value >= 0 /\ extract_ret.value <= 100

(***************************************************************************)
(* C18. Lossless split: the contents of the chunks create_adaptive_chunks  *)
(* returned, concatenated in list order, are the input text, with          *)
(* max_chunks given or not, the second pass run or not.                    *)
(***************************************************************************)
RECURSIVE Joined(_, _)
Joined(cs, k) == IF k = 0 THEN <<>> ELSE Joined(cs, k - 1) \o cs[k].chunk

FirstPassChunks ==
    FirstPass(content, FindSemanticBoundaries(content, DetectContentType(content)),
              1, chunk_size, <<>>)

C18_LosslessSplit ==
    chunks # NotChunked => Joined(chunks, Len(chunks)) = content

\* The second pass has run on a first pass that split a span, and has left
\* more than one chunk.
C18_Witness ==
    /\ chunks # NotChunked
    /\ max_chunks # 0
    /\ Len(FirstPassChunks) > max_chunks
    /\ Len(chunks) >= 2
    /\ Len(chunks) < Len(FirstPassChunks)
    /\ \E i \in DOMAIN FirstPassChunks : FirstPassChunks[i].index # i - 1

(***************************************************************************)
(* C19. Chunk-count bound: when max_chunks is given, the list returned by  *)
(* create_adaptive_chunks has at most max_chunks chunks.                   *)
(***************************************************************************)
C19_ChunkCountBound ==
    chunks # NotChunked /\ max_chunks # 0 => Len(chunks) <= max_chunks

(***************************************************************************)
(* C20. Target-size bound: min_chunk_size <= chunk_size <= max_chunk_size  *)
(* from construction on and after any sequence of adjust_chunk_size calls. *)
(***************************************************************************)
C20_TargetSizeBound ==
    min_chunk_size <= chunk_size /\ chunk_size <= max_chunk_size

(***************************************************************************)
(* C21. Controller step rule: adjust_chunk_size(t) sets chunk_size to      *)
(* min(floor(1.2 * old), max_chunk_size) when t < 5000, to                 *)
(* max(floor(0.7 * old), min_chunk_size) when t > 15000, and leaves it     *)
(* unchanged when 5000 <= t <= 15000.                                      *)
(***************************************************************************)
LastDuration == processing_times'[Len(processing_times')]

C21_StepRule ==
    [][processing_times' # processing_times =>
          chunk_size' =
              IF LastDuration < 5000
              THEN Min((12 * chunk_size) \div 10, max_chunk_size)
              ELSE IF LastDuration > 15000
              THEN Max((7 * chunk_size) \div 10, min_chunk_size)
              ELSE chunk_size]_vars

(***************************************************************************)
(* C22. Chunk indices are ordered and unique: along every list returned by *)
(* create_adaptive_chunks the stored index is strictly increasing, so that *)
(* create_chunks_file, which names a file after the index of its chunk,    *)
(* writes as many files as there are chunks.                               *)
(***************************************************************************)
\* create_chunks_file: the names of the files written, a name being fixed
\* by the index it is formatted from.
ChunkFiles(cs) == {cs[i].index : i \in DOMAIN cs}

C22_IndicesOrderedUnique ==
    chunks # NotChunked =>
        /\ \A i, j \in DOMAIN chunks : i < j => chunks[i].index < chunks[j].index
        /\ Cardinality(ChunkFiles(chunks)) = Len(chunks)

(***************************************************************************)
(* C23. Classifier decision order: detect_content_type returns, for the    *)
(* trimmed text, "json" exactly when the whole of it is a JSON object or   *)
(* array literal, else "markdown" when it begins with a heading marker,    *)
(* else "log" when it begins with a bracketed date, else "code" when it    *)
(* begins as source code, else "text"; so a text that begins with a        *)
(* bracketed date is never "json".                                         *)
(***************************************************************************)
\* The texts of ClassifyTexts that, trimmed, are a JSON object or array
\* literal.
IsJsonLiteral(s) == s \in {<<"{", "}">>, <<"{", " ", "}">>, <<"[", "]">>}

Classified(text) ==
    LET s == Strip(text)
    IN  IF IsJsonLiteral(s) THEN "json"
        ELSE IF \E k \in 1..6 : HashesAt(s, 0, k) THEN "markdown"
        ELSE IF LogPrefixAt(s, 0) THEN "log"
        ELSE IF MatchesCode(s) THEN "code"
        ELSE "text"

C23_DecisionOrder ==
    content_type # "none" => content_type = Classified(content)

(***************************************************************************)
(* C24. First-pass assembly rule: walking the boundary pairs from left to  *)
(* right, a span longer than 2 x chunk_size is replaced by consecutive     *)
(* sub-spans of chunk_size characters (the last possibly shorter); a span  *)
(* shorter than 0.5 x chunk_size is merged with the next span, two         *)
(* boundaries being passed, when a next span exists, and is kept alone     *)
(* when none exists; any other span is one chunk.                          *)
(***************************************************************************)
Boundaries == FindSemanticBoundaries(content, DetectContentType(content))

SpanLen(b, i) == b[i + 1] - b[i]

LongSpan(b, i, size) == SpanLen(b, i) > 2 * size

MergedSpan(b, i, size) ==
    /\ ~LongSpan(b, i, size)
    /\ 2 * SpanLen(b, i) < size
    /\ i + 2 <= Len(b)

\* The boundaries the walk stops at, from b[i] on.
RECURSIVE Walk(_, _, _)
Walk(b, i, size) ==
    IF i >= Len(b) THEN <<>>
    ELSE <<i>> \o Walk(b, IF MergedSpan(b, i, size) THEN i + 2 ELSE i + 1, size)

\* The contents of the chunks the rule gives for the span at b[i].
SpanChunks(text, b, i, size) ==
    IF LongSpan(b, i, size)
    THEN [j \in 1..((SpanLen(b, i) + size - 1) \div size) |->
             SubSeq(text, b[i] + (j - 1) * size + 1, Min(b[i] + j * size, b[i + 1]))]
    ELSE IF MergedSpan(b, i, size) THEN <<SubSeq(text, b[i] + 1, b[i + 2])>>
    ELSE <<SubSeq(text, b[i] + 1, b[i + 1])>>

RECURSIVE RuleChunks(_, _, _, _, _)
RuleChunks(text, b, w, k, size) ==
    IF k = 0 THEN <<>>
    ELSE RuleChunks(text, b, w, k - 1, size) \o SpanChunks(text, b, w[k], size)

SecondPassRan(cs) == max_chunks # 0 /\ Len(cs) > max_chunks

C24_FirstPassRule ==
    [][CreateAdaptiveChunksCall =>
          LET w == Walk(Boundaries, 1, chunk_size)
              rule == RuleChunks(content, Boundaries, w, Len(w), chunk_size)
          IN  ~SecondPassRan(rule) =>
                  [k \in DOMAIN chunks' |-> chunks'[k].chunk] = rule]_vars

\* The call has merged a short first span with its successor and has then
\* kept a span as it was.
C24_Witness ==
    /\ chunks # NotChunked
    /\ processing_times = <<>>
    /\ ~SecondPassRan(chunks)
    /\ Len(Boundaries) = 4
    /\ MergedSpan(Boundaries, 1, chunk_size)
    /\ Len(chunks) = 2
    /\ chunks[1].chunk = SubSeq(content, 1, Boundaries[3])

(***************************************************************************)
(* C25. Frame of the chunker state: create_adaptive_chunks (with the       *)
(* detect_content_type and find_semantic_boundaries it calls),             *)
(* detect_content_type and get_stats leave chunk_size, min_chunk_size,     *)
(* max_chunk_size and processing_times unchanged; adjust_chunk_size        *)
(* changes chunk_size and processing_times only, never min_chunk_size,     *)
(* max_chunk_size or optimal_time, and never a chunk list already          *)
(* returned.                                                               *)
(***************************************************************************)
C25_Frame ==
    [][/\ chunks' # chunks \/ content_type' # content_type \/ stats' # stats
          => UNCHANGED <<chunk_size, min_chunk_size, max_chunk_size, optimal_time,
                         processing_times>>
       /\ chunk_size' # chunk_size \/ processing_times' # processing_times
          => UNCHANGED <<min_chunk_size, max_chunk_size, optimal_time, chunks>>
       /\ UNCHANGED <<min_chunk_size, max_chunk_size, optimal_time>>]_vars

\* A chunk list was returned, get_stats was called, and a later
\* adjust_chunk_size call has shrunk chunk_size: the list is as it was, not
\* what the new chunk_size gives.
C25_Witness ==
    /\ chunks # NotChunked
    /\ chunks # <<>>
    /\ chunks # CreateAdaptiveChunks(content, chunk_size, max_chunks)
    /\ processing_times # <<>>
    /\ stats # NoStats
    /\ stats.current_chunk_size > chunk_size
    /\ content_type = "text"

(***************************************************************************)
(* C26. Chunk size upper bound: when max_chunks is not given, every chunk  *)
(* create_adaptive_chunks returns has at most 2 x chunk_size characters,   *)
(* the chunks made by merging a short span with its successor included.    *)
(***************************************************************************)
C26_ChunkSizeBound ==
    [][CreateAdaptiveChunksCall /\ max_chunks = 0 =>
          \A k \in DOMAIN chunks' : Len(chunks'[k].chunk) <= 2 * chunk_size]_vars

(***************************************************************************)
(* C27. Sync/async equivalence: for the same chunk list, query,            *)
(* configuration and answer operation, process_all_chunks and              *)
(* process_all_chunks_async return summaries with the same total_waves,    *)
(* processed_waves, processed_chunks, successful_chunks and                *)
(* early_termination and the same set of results, and pass the same chunks *)
(* to the answer operation.                                                *)
(***************************************************************************)
C27_SyncAsyncEquivalent ==
    pc = "done" /\ a_pc = "done" =>
        /\ summary.total_waves = a_summary.total_waves
        /\ summary.processed_waves = a_summary.processed_waves
        /\ summary.total_chunks = a_summary.total_chunks
        /\ summary.processed_chunks = a_summary.processed_chunks
        /\ summary.successful_chunks = a_summary.successful_chunks
        /\ summary.early_termination = a_summary.early_termination
        /\ Range(summary.results) = Range(a_summary.results)
        /\ calls = a_calls

\* Both runs stopped early, after failed and successful chunks, and list the
\* same results in different orders.
C27_Witness ==
    /\ pc = "done"
    /\ a_pc = "done"
    /\ summary.early_termination
    /\ summary.results # a_summary.results
    /\ \E i \in DOMAIN a_summary.results : ~a_summary.results[i].success
    /\ \E c \in Chunks : a_calls[c] = 0 /\ c \in Range(all_chunk_paths)

(***************************************************************************)
(* C28. The processor singleton is created once: however the threads       *)
(* calling get_parallel_processor interleave, the constructor runs at most *)
(* once, every caller receives the same instance, and the arguments of     *)
(* later calls do not change the instance.                                 *)
(***************************************************************************)
C28_ProcessorSingleton ==
    /\ [](/\ p_constructed <= 1
          /\ \A t \in Threads : p_pc[t] = "done" => p_ret[t] = p_instance /\ p_ret[t] # None
          /\ \A t, u \in Threads :
                p_pc[t] = "done" /\ p_pc[u] = "done" => p_ret[t] = p_ret[u])
    /\ [][p_instance # None => p_instance' = p_instance]_vars

\* A thread that had found no instance holds the lock and finds the
\* instance another thread, called with another argument, has made since.
C28_Witness ==
    \E t, u \in Threads :
        /\ p_pc[t] = "recheck"
        /\ p_instance # None
        /\ p_pc[u] = "done"
        /\ p_args[u] # p_args[t]
        /\ p_instance.arg = p_args[u]

(***************************************************************************)
(* C29. The chunker singleton is unique: however the threads calling       *)
(* get_adaptive_chunker interleave, every caller receives the same         *)
(* AdaptiveChunker instance.                                               *)
(***************************************************************************)
C29_ChunkerSingleton ==
    \A t, u \in Threads : c_pc[t] = "done" /\ c_pc[u] = "done" => c_ret[t] = c_ret[u]

(***************************************************************************)
(* C30. The run terminates: with max_concurrent > 0 and every answer call  *)
(* returning or raising, process_all_chunks eventually returns a summary,  *)
(* having executed at most total_waves waves and made at most total_chunks *)
(* answer calls.                                                           *)
(***************************************************************************)
RECURSIVE TotalCalls(_)
TotalCalls(k) == IF k = 0 THEN 0 ELSE TotalCalls(k - 1) + calls[k]

C30_RunTerminates ==
    /\ <>(pc = "done")
    /\ [](pc = "done" =>
             /\ summary # NoSummary
             /\ summary.processed_waves <= summary.total_waves
             /\ TotalCalls(MaxChunks) <= summary.total_chunks)

====
